---- MODULE Spec2Model ----
(***************************************************************************)
(* Model of the session cache of the Binance dashboard                     *)
(* (src/data/cache.py): CacheManager over streamlit's session_state, and   *)
(* the callers of get_or_compute.                                          *)
(*                                                                         *)
(* Conventions                                                             *)
(*   - Python values that can be positional arguments are records          *)
(*     [t |-> type, v |-> integer]; strings are numbered (see StrRepr).    *)
(*   - An Optional[...] parameter is a sequence: <<>> is None, <<x>> is x. *)
(*   - A payload (the 'data' of a cache entry, a producer's result) is a   *)
(*     record [is_none, src, args]: None, or the data the upstream returns *)
(*     for the argument tuple args (src "producer"), or a value a page     *)
(*     passes itself (src "page", "default").                              *)
(*   - Time is the integer value time.time() returns.                      *)
(***************************************************************************)
EXTENDS Integers, Sequences, FiniteSets, TLC

\* ------------------------------------------------------------------------
\* Bounds of the model
\* ------------------------------------------------------------------------
MaxWindows == 1
MaxOffset == 1
MaxArgs == 2
MaxPositions == 3
MaxTrades == 3
MaxIncome == 11

\* ------------------------------------------------------------------------
\* Program constants
\* ------------------------------------------------------------------------
default_timeout == 60

\* load_config: "refresh_interval": 60 in default_config
default_refresh_interval == 60

\* CachedAPI.cached_positions(client, timeout=30)
cached_positions_timeout == 30

\* the timeout defaults of cached_account_info, cached_transaction_history
\* and cached_income_history, and the limit default of the history wrappers
cached_account_info_timeout == 30
cached_transaction_history_timeout == 60
cached_income_history_timeout == 300
history_limit == 100
cache_key_prefix == "binance_dashboard_"

\* ------------------------------------------------------------------------
\* Python values used as positional arguments
\* ------------------------------------------------------------------------
PyNone == [t |-> "none", v |-> 0]
PyTrue == [t |-> "bool", v |-> 1]
PyInt(i) == [t |-> "int", v |-> i]
PyStr(i) == [t |-> "str", v |-> i]

\* the symbols a page can pass, numbered in lexicographic order
StrRepr(i) == IF i = 1 THEN "'BTCUSDT'" ELSE "'ETHUSDT'"

ArgValues == {PyNone, PyTrue, PyInt(1), PyInt(100), PyInt(500), PyStr(1)}

RECURSIVE SeqsUpTo(_, _)
SeqsUpTo(S, n) ==
  IF n = 0 THEN {<<>>}
  ELSE LET shorter == SeqsUpTo(S, n - 1)
       IN shorter \cup {Append(s, x) : s \in shorter, x \in S}

ArgTuples == SeqsUpTo(ArgValues, MaxArgs)

\* a < b of Python is defined between numbers (bool is a number) and
\* between strings; every other pair, None with None included, raises
\* TypeError
Comparable(a, b) ==
  /\ a.t # "none"
  /\ b.t # "none"
  /\ (a.t = "str") = (b.t = "str")

PyLess(a, b) == a.v < b.v

\* sorted(args) raises as soon as it compares an incomparable pair, and a
\* comparison sort of two or more elements compares across every split of
\* its input
SortedRaises(args) ==
  \E i \in 1..Len(args) : \E j \in 1..Len(args) :
    i < j /\ ~Comparable(args[i], args[j])

\* insertion behind the elements that are not greater: the sort is stable
RECURSIVE InsertStable(_, _)
InsertStable(s, x) ==
  IF s = <<>> THEN <<x>>
  ELSE IF PyLess(x, Head(s)) THEN <<x>> \o s
  ELSE <<Head(s)>> \o InsertStable(Tail(s), x)

RECURSIVE sorted(_)
sorted(args) ==
  IF args = <<>> THEN <<>>
  ELSE InsertStable(sorted(SubSeq(args, 1, Len(args) - 1)), args[Len(args)])

repr(a) ==
  CASE a.t = "none" -> "None"
    [] a.t = "bool" -> (IF a.v = 1 THEN "True" ELSE "False")
    [] a.t = "int" -> ToString(a.v)
    [] OTHER -> StrRepr(a.v)

\* str(list): the reprs of the elements, in order
str(l) == [i \in 1..Len(l) |-> repr(l[i])]

\* hashlib.md5(s.encode()).hexdigest()[:8]; the digest is kept symbolic, one
\* digest per input string (the strings of ArgTuples have distinct digests)
md5_hexdigest_8(s) == [md5_8 |-> s]

\* CacheManager.get_cache_key raises TypeError for these arguments
get_cache_key_raises(args) == args # <<>> /\ SortedRaises(args)

\* CacheManager.get_cache_key: the key string, as its three parts
\* prefix, key and the suffix "_" + hash (<<>> when there are no arguments)
get_cache_key(key, args) ==
  IF args # <<>>
  THEN [prefix |-> cache_key_prefix, key |-> key,
        suffix |-> <<"_", md5_hexdigest_8(str(sorted(args)))>>]
  ELSE [prefix |-> cache_key_prefix, key |-> key, suffix |-> <<>>]

\* ------------------------------------------------------------------------
\* Payloads, optional parameters, session_state
\* ------------------------------------------------------------------------
NoneValue == [is_none |-> TRUE, src |-> "none", args |-> <<>>]
Fetched(args) == [is_none |-> FALSE, src |-> "producer", args |-> args]
PageValue == [is_none |-> FALSE, src |-> "page", args |-> <<>>]
OtherPageValue == [is_none |-> FALSE, src |-> "page", args |-> <<PyInt(1)>>]
Sentinel == [is_none |-> FALSE, src |-> "default", args |-> <<>>]

\* Optional[int]: the timeout values passed to set and to get_or_compute
SetTimeouts == {<<>>, <<0>>, <<1>>}
Timeouts == {<<>>, <<1>>}

\* the logical keys the callers use
Names == {"positions", "transaction_history"}

\* the argument tuples the callers of get_or_compute pass: none
\* (cached_account_info, cached_positions), (limit,), and the (symbol, limit)
\* of cached_transaction_history and cached_income_history
CallArgs ==
  {<<>>, <<PyInt(100)>>, <<PyInt(500)>>,
   <<PyNone, PyInt(100)>>, <<PyStr(1), PyInt(100)>>} \cap ArgTuples

\* the values set() is called with, and the defaults get() is called with
SetValues == {NoneValue, PageValue, OtherPageValue}
Defaults == {NoneValue, Sentinel}

\* the session keys app.py creates outside the cache namespace
SessionKey(name) == [prefix |-> "", key |-> name, suffix |-> <<>>]
AppObject(o) == [object |-> o]

\* isinstance(cached_item, dict) and 'data' in ... and 'timestamp' in ...
IsCacheItem(item) == {"data", "timestamp"} \subseteq DOMAIN item

Remove(ss, k) == [x \in DOMAIN ss \ {k} |-> ss[x]]
Store(ss, k, item) == [x \in DOMAIN ss \cup {k} |-> IF x = k THEN item ELSE ss[x]]

\* an entry that is still served at the instant its window ends
StillValidAtBoundary(item, t) == t - item.timestamp <= item.timeout

\* time.time() - cached_item['timestamp'] < cached_item['timeout']
StillValid(item, t) == t - item.timestamp < item.timeout

\* CacheManager.get: the value returned and session_state afterwards
get(ss, t, key, default) ==
  LET cache_key == get_cache_key(key, <<>>)
  IN IF cache_key \in DOMAIN ss /\ IsCacheItem(ss[cache_key])
     THEN IF StillValid(ss[cache_key], t)
          THEN [ret |-> ss[cache_key].data, ss |-> ss]
          ELSE [ret |-> default, ss |-> Remove(ss, cache_key)]
     ELSE [ret |-> default, ss |-> ss]

\* a set that keeps the entry a key already has
set_if_absent(ss, t, key, value, timeout) ==
  LET tmo == IF timeout = <<>> THEN default_timeout ELSE timeout[1]
      cache_key == get_cache_key(key, <<>>)
  IN IF cache_key \in DOMAIN ss THEN ss
     ELSE Store(ss, cache_key,
                [data |-> value, timestamp |-> t, timeout |-> tmo])

\* a set that updates the entry a key already has in place, keeping the
\* creation timestamp
set_keep_timestamp(ss, t, key, value, timeout) ==
  LET tmo == IF timeout = <<>> THEN default_timeout ELSE timeout[1]
      cache_key == get_cache_key(key, <<>>)
  IN Store(ss, cache_key,
           [data |-> value,
            timestamp |-> IF cache_key \in DOMAIN ss
                          THEN ss[cache_key].timestamp ELSE t,
            timeout |-> tmo])

\* CacheManager.set: session_state afterwards
set(ss, t, key, value, timeout) ==
  LET tmo == IF timeout = <<>> THEN default_timeout ELSE timeout[1]
      cache_key == get_cache_key(key, <<>>)
  IN Store(ss, cache_key, [data |-> value, timestamp |-> t, timeout |-> tmo])

\* CacheManager.clear: session_state afterwards; key is Optional[str]
clear(ss, key) ==
  IF key # <<>> /\ key[1] # ""
  THEN LET cache_key == get_cache_key(key[1], <<>>)
       IN IF cache_key \in DOMAIN ss THEN Remove(ss, cache_key) ELSE ss
  ELSE LET keys_to_remove == {k \in DOMAIN ss : k.prefix = cache_key_prefix}
       IN [x \in DOMAIN ss \ keys_to_remove |-> ss[x]]

\* an is_expired that still reports an entry as live at the instant its
\* window ends
is_expired_after_boundary(ss, t, key) ==
  LET cache_key == get_cache_key(key, <<>>)
  IN IF cache_key \in DOMAIN ss /\ "timestamp" \in DOMAIN ss[cache_key]
     THEN t - ss[cache_key].timestamp > ss[cache_key].timeout
     ELSE TRUE

\* CacheManager.is_expired
is_expired(ss, t, key) ==
  LET cache_key == get_cache_key(key, <<>>)
  IN IF cache_key \in DOMAIN ss /\ "timestamp" \in DOMAIN ss[cache_key]
     THEN t - ss[cache_key].timestamp >= ss[cache_key].timeout
     ELSE TRUE

\* a get_cache_stats that counts an entry as expired only after the instant
\* its window ends
get_cache_stats_after_boundary(ss, t) ==
  LET cache_keys == {k \in DOMAIN ss : k.prefix = cache_key_prefix}
      expired == {k \in cache_keys :
                    /\ "timestamp" \in DOMAIN ss[k]
                    /\ t - ss[k].timestamp > ss[k].timeout}
  IN [total_entries |-> Cardinality(cache_keys),
      expired_entries |-> Cardinality(expired),
      valid_entries |-> Cardinality(cache_keys) - Cardinality(expired)]

\* CacheManager.get_cache_stats: the three counts it reports (it reads
\* session_state and writes nothing)
get_cache_stats(ss, t) ==
  LET cache_keys == {k \in DOMAIN ss : k.prefix = cache_key_prefix}
      expired == {k \in cache_keys :
                    /\ "timestamp" \in DOMAIN ss[k]
                    /\ t - ss[k].timestamp >= ss[k].timeout}
  IN [total_entries |-> Cardinality(cache_keys),
      expired_entries |-> Cardinality(expired),
      valid_entries |-> Cardinality(cache_keys) - Cardinality(expired)]

\* load_config, as far as app.refresh_interval goes: the default unless the
\* environment variable REFRESH_INTERVAL (env, Optional[int]) is set to a
\* value that is not falsy
load_config(env) ==
  [app |->
     [refresh_interval |->
        IF env # <<>> /\ env[1] # 0 THEN env[1]
        ELSE default_refresh_interval]]

\* REFRESH_INTERVAL unset, "0" and "1"
RefreshEnv == {<<>>, <<0>>, <<1>>}

\* ------------------------------------------------------------------------
\* State
\* ------------------------------------------------------------------------
VARIABLES
  session_state,   \* st.session_state: session key -> item
  now,             \* the clock time.time() reads
  pc,              \* per caller: the statement of get_or_compute it is at
  call,            \* per caller: parameters and locals of its get_or_compute
  last,            \* the operation that completed last, with what it returned
  derive,          \* a derivation of cache keys: its inputs and its results
  config,          \* the configuration load_config returned at startup
  shape            \* a run of the record-shaping functions: input and results

vars == <<session_state, now, pc, call, last, derive, config, shape>>

Callers == {1, 2}

\* the instants at which the clock is read: up to MaxOffset seconds after
\* the start and after each whole default window that has elapsed
Instants ==
  {w * default_timeout + o : w \in 0..MaxWindows, o \in 0..MaxOffset}

\* parameters and locals of a get_or_compute call, and what is recorded of
\* its run: stale_at_call (is_expired(key) on entry), miss (what line 84
\* saw), invoked (times the producer ran),
\* invoked_fresh (the producer ran while is_expired(key) was false), raced
\* (another caller was between its own miss and its set when this one
\* missed), peer_set (such a caller stored its result during this call)
NoCall ==
  [key |-> "", args |-> <<>>, timeout |-> <<>>, cache_key |-> <<>>,
   value |-> NoneValue, stale_at_call |-> FALSE,
   miss |-> FALSE, invoked |-> 0, invoked_fresh |-> FALSE, raced |-> FALSE,
   peer_set |-> FALSE]

\* no statistics reported
NoStats == [total_entries |-> 0, expired_entries |-> 0, valid_entries |-> 0]

\* an operation that completed: its name and parameters, what it returned or
\* raised (ret, expired for is_expired, stats for get_cache_stats), for get
\* and set how they found the entry (outcome), and for get_or_compute the
\* record of its run and what its producer raised
NoOp ==
  [op |-> "init", caller |-> 0, key |-> <<>>, args |-> <<>>, timeout |-> <<>>,
   value |-> NoneValue, ret |-> NoneValue, raised |-> "", outcome |-> "",
   producer_raised |-> "", expired |-> FALSE, stats |-> NoStats,
   stale_at_call |-> FALSE, miss |-> FALSE, invoked |-> 0,
   invoked_fresh |-> FALSE, raced |-> FALSE, peer_set |-> FALSE]

\* no key derived
NoKey == [prefix |-> "", key |-> "", suffix |-> <<>>]

NoDerive ==
  [key |-> "", args |-> <<>>, done |-> FALSE,
   raised |-> FALSE, cache_key |-> NoKey,
   reversed_raised |-> FALSE, reversed_cache_key |-> NoKey,
   plain_cache_key |-> NoKey]

\* the result of process_account_summary before it has run
NoResult ==
  [raised |-> "", total_exposure |-> 0,
   leverage_usage |-> [num |-> 0, den |-> 1],
   pnl_percentage |-> [num |-> 0, den |-> 1]]

\* pd.DataFrame(): no columns, no rows
EmptyFrame == [columns |-> {}, rows |-> <<>>]

\* an empty-frame summary that reports no win rate
TradesResultWithoutWinRate ==
  [raised |-> "", total_trades |-> 0, total_volume |-> 0,
   total_commission |-> 0, win_rate |-> <<>>,
   avg_trade_size |-> [num |-> 0, den |-> 1],
   trades_by_symbol |-> <<>>, trades_by_day |-> <<>>]

\* the summary process_trades_data returns for an empty frame (its
\* trades_by_symbol and trades_by_day are empty), with what it raised
NoTradesResult ==
  [raised |-> "", total_trades |-> 0, total_volume |-> 0,
   total_commission |-> 0, win_rate |-> <<0>>,
   avg_trade_size |-> [num |-> 0, den |-> 1],
   trades_by_symbol |-> <<>>, trades_by_day |-> <<>>]

\* the metrics calculate_performance_metrics starts from; of the Sharpe
\* ratio, a square root, the model keeps whether it was worked out
NoMetrics ==
  [sharpe_ratio |-> [computed |-> FALSE, v |-> 0], max_drawdown |-> 0,
   win_rate |-> [num |-> 0, den |-> 1],
   profit_factor |-> [num |-> 0, den |-> 1],
   avg_win |-> [num |-> 0, den |-> 1], avg_loss |-> [num |-> 0, den |-> 1],
   largest_win |-> 0, largest_loss |-> 0]

\* the summary process_income_data returns for an empty frame, with what
\* it raised
NoIncomeResult ==
  [raised |-> "", total_income |-> 0, income_by_type |-> <<>>,
   recent_income |-> <<>>]

\* no raw record: the keys of the record itself, and the raw assets and
\* positions an account record lists
NoData == [fields |-> <<>>, assets |-> <<>>, positions |-> <<>>]

\* no record shaped: stage names the function that ran last; raw is the
\* list of position records the exchange returned, objects the Positions
\* built from it, positions what client.get_positions returned, processed
\* what process_positions_data returned; account_data is what
\* client.get_account_info returned, summary the AccountSummary built from
\* it, result what process_account_summary returned or raised; trades is
\* what futures_account_trades returned, trades_df the frame
\* get_transaction_history made of it (and what process_trades_data left
\* of it), trades_result and first_result what the last and the first
\* process_trades_data on it returned, calls how often it ran, metrics
\* what calculate_performance_metrics returned; income is what
\* futures_income_history returned, income_df the frame get_income_history
\* made of it, income_result what process_income_data returned; cls is the
\* model class whose from_api_response was given data, raised what it
\* raised
NoShape ==
  [stage |-> "none", raw |-> <<>>, objects |-> <<>>, positions |-> <<>>,
   processed |-> <<>>,
   trades |-> <<>>, trades_df |-> EmptyFrame,
   trades_result |-> NoTradesResult, first_result |-> NoTradesResult,
   calls |-> 0, metrics |-> NoMetrics,
   income |-> <<>>, income_df |-> EmptyFrame, income_result |-> NoIncomeResult,
   cls |-> "", data |-> NoData, raised |-> "",
   account_data |-> [total_balance |-> PyInt(0),
                     total_unrealized_pnl |-> PyInt(0), positions |-> <<>>],
   summary |-> [total_balance |-> 0, total_unrealized_pnl |-> 0,
                positions |-> <<>>],
   result |-> NoResult]

InitCache ==
  /\ session_state =
       [k \in {SessionKey("client"), SessionKey("current_page")} |->
          IF k = SessionKey("client") THEN AppObject("BinanceClient")
          ELSE AppObject("Dashboard")]
  /\ now = 0
  /\ pc = [p \in Callers |-> "idle"]
  /\ call = [p \in Callers |-> NoCall]
  /\ last = NoOp

Init ==
  /\ InitCache
  /\ derive = NoDerive
  /\ config = load_config(<<>>)
  /\ shape = NoShape

\* time passes
Tick ==
  /\ \E t \in Instants :
       /\ t > now
       /\ now' = t
  /\ last' = [NoOp EXCEPT !.op = "tick"]
  /\ UNCHANGED <<session_state, pc, call, derive, config, shape>>

EntryOf(ss, key) ==
  IF get_cache_key(key, <<>>) \in DOMAIN ss
  THEN <<ss[get_cache_key(key, <<>>)]>>
  ELSE <<>>

\* how get finds the entry of key: "absent", "hit" or "expired"
Outcome(ss, t, key) ==
  IF EntryOf(ss, key) = <<>> THEN "absent"
  ELSE IF StillValid(EntryOf(ss, key)[1], t) THEN "hit" ELSE "expired"

\* a page calls cache.get(key, default), key one of keys
Get(keys) ==
  /\ \E key \in keys, default \in Defaults :
       LET r == get(session_state, now, key, default)
       IN /\ session_state' = r.ss
          /\ last' = [NoOp EXCEPT !.op = "get", !.key = <<key>>,
                                  !.value = default, !.ret = r.ret,
                                  !.outcome =
                                     Outcome(session_state, now, key)]
  /\ UNCHANGED <<now, pc, call, derive, config, shape>>

\* a page calls cache.set(key, value, timeout), key one of keys
Set(keys) ==
  /\ \E key \in keys, value \in SetValues, timeout \in SetTimeouts :
       /\ session_state' = set(session_state, now, key, value, timeout)
       /\ last' = [NoOp EXCEPT !.op = "set", !.key = <<key>>,
                               !.value = value, !.timeout = timeout,
                               !.outcome = Outcome(session_state, now, key)]
  /\ UNCHANGED <<now, pc, call, derive, config, shape>>

\* a page calls cache.clear(key), key one of keys, or cache.clear()
Clear(keys) ==
  /\ \E key \in {<<>>} \cup {<<n>> : n \in keys} :
       /\ session_state' = clear(session_state, key)
       /\ last' = [NoOp EXCEPT !.op = "clear", !.key = key]
  /\ UNCHANGED <<now, pc, call, derive, config, shape>>

\* an is_expired that evicts the expired entry it finds, as get does
IsExpiredEvicting ==
  /\ \E key \in Names :
       /\ last' = [NoOp EXCEPT !.op = "is_expired_call", !.key = <<key>>,
                               !.expired =
                                  is_expired(session_state, now, key),
                               !.outcome = Outcome(session_state, now, key)]
       /\ session_state' = get(session_state, now, key, NoneValue).ss
  /\ UNCHANGED <<now, pc, call, derive, config, shape>>

\* a page calls cache.is_expired(key)
IsExpired ==
  /\ \E key \in Names :
       last' = [NoOp EXCEPT !.op = "is_expired_call", !.key = <<key>>,
                            !.expired = is_expired(session_state, now, key),
                            !.outcome = Outcome(session_state, now, key)]
  /\ UNCHANGED <<session_state, now, pc, call, derive, config, shape>>

\* a page calls cache.get_cache_stats()
GetCacheStats ==
  /\ last' = [NoOp EXCEPT !.op = "get_cache_stats",
                          !.stats = get_cache_stats(session_state, now)]
  /\ UNCHANGED <<session_state, now, pc, call, derive, config, shape>>

\* ------------------------------------------------------------------------
\* get_or_compute, statement by statement
\* ------------------------------------------------------------------------
\* what the producer can raise
ProducerErrors == {"APIError"}

\* what compute_func(*args) can return: the upstream data for args, or None
ProducerResults(args) == {Fetched(args), NoneValue}

\* the completed call of caller p, returning ret or raising
Completed(p, c, ret, raised) ==
  [NoOp EXCEPT !.op = "get_or_compute", !.caller = p, !.key = <<c.key>>,
               !.args = c.args, !.timeout = c.timeout,
               !.ret = ret, !.raised = raised,
               !.stale_at_call = c.stale_at_call,
               !.miss = c.miss, !.invoked = c.invoked,
               !.invoked_fresh = c.invoked_fresh, !.raced = c.raced,
               !.peer_set = c.peer_set]

\* lines 75-81: the call and the derivation of cache_key
GocEnter(p, calls) ==
  /\ pc[p] = "idle"
  /\ \E in \in calls :
       LET key == in.key
           args == in.args
           c == [NoCall EXCEPT !.key = key, !.args = args,
                               !.timeout = in.timeout,
                               !.stale_at_call =
                                  is_expired(session_state, now, key)]
       IN IF get_cache_key_raises(args)
          THEN /\ last' = Completed(p, c, NoneValue, "TypeError")
               /\ UNCHANGED <<pc, call>>
          ELSE /\ call' = [call EXCEPT ![p] =
                             [c EXCEPT !.cache_key =
                                <<get_cache_key(key, args)>>]]
               /\ pc' = [pc EXCEPT ![p] = "is_expired"]
               /\ last' = [NoOp EXCEPT !.op = "enter", !.caller = p]
  /\ UNCHANGED <<session_state, now, derive, config, shape>>

\* the callers that have missed and not yet stored
InFlight(key) ==
  {q \in Callers : pc[q] \in {"compute", "set"} /\ call[q].key = key
                   /\ call[q].miss}

\* line 84: if not self.is_expired(key)
GocIsExpired(p) ==
  /\ pc[p] = "is_expired"
  /\ LET miss == is_expired(session_state, now, call[p].key)
         peers == IF miss THEN InFlight(call[p].key) \ {p} ELSE {}
     IN /\ call' = [q \in Callers |->
                      IF q = p
                      THEN [call[p] EXCEPT !.miss = miss,
                                           !.raced = (peers # {})]
                      ELSE IF q \in peers
                      THEN [call[q] EXCEPT !.raced = TRUE]
                      ELSE call[q]]
        /\ pc' = [pc EXCEPT ![p] = IF miss THEN "compute" ELSE "get"]
  /\ last' = [NoOp EXCEPT !.op = "is_expired", !.caller = p]
  /\ UNCHANGED <<session_state, now, derive, config, shape>>

\* lines 85-87: cached_value = self.get(key); return it unless it is None
GocGet(p) ==
  /\ pc[p] = "get"
  /\ LET r == get(session_state, now, call[p].key, NoneValue)
     IN /\ session_state' = r.ss
        /\ IF ~r.ret.is_none
           THEN /\ last' = Completed(p, call[p], r.ret, "")
                /\ pc' = [pc EXCEPT ![p] = "idle"]
                /\ call' = [call EXCEPT ![p] = NoCall]
           ELSE /\ last' = [NoOp EXCEPT !.op = "get_none", !.caller = p]
                /\ pc' = [pc EXCEPT ![p] = "compute"]
                /\ UNCHANGED call
  /\ UNCHANGED <<now, derive, config, shape>>

\* line 90: value = compute_func(*args, **kwargs), the producer returns
GocCompute(p) ==
  /\ pc[p] = "compute"
  /\ \E value \in ProducerResults(call[p].args) :
       call' = [call EXCEPT ![p] =
                  [call[p] EXCEPT
                     !.value = value,
                     !.invoked = @ + 1,
                     !.invoked_fresh =
                        ~is_expired(session_state, now, call[p].key)]]
  /\ pc' = [pc EXCEPT ![p] = "set"]
  /\ last' = [NoOp EXCEPT !.op = "compute", !.caller = p]
  /\ UNCHANGED <<session_state, now, derive, config, shape>>

\* a producer error that leaves get_or_compute through a handler that
\* remembers the failure in the cache
OnProducerErrorCached(ss, t, key, timeout, e) ==
  [ss |-> set(ss, t, key, NoneValue, timeout), raised |-> e]

\* line 90 is in no try block: the exception e leaves get_or_compute as it
\* is and lines 93-95 do not run
OnProducerError(ss, t, key, timeout, e) ==
  [ss |-> ss, raised |-> e]

\* line 90, the producer raises
GocComputeRaises(p) ==
  /\ pc[p] = "compute"
  /\ \E e \in ProducerErrors :
       LET r == OnProducerError(session_state, now, call[p].key,
                                call[p].timeout, e)
           c == [call[p] EXCEPT
                   !.invoked = @ + 1,
                   !.invoked_fresh =
                      ~is_expired(session_state, now, call[p].key)]
       IN /\ session_state' = r.ss
          /\ last' = [Completed(p, c, NoneValue, r.raised)
                        EXCEPT !.producer_raised = e]
  /\ pc' = [pc EXCEPT ![p] = "idle"]
  /\ call' = [call EXCEPT ![p] = NoCall]
  /\ UNCHANGED <<now, derive, config, shape>>

\* lines 93-95: self.set(key, value, timeout); return value
GocSet(p) ==
  /\ pc[p] = "set"
  /\ session_state' = set(session_state, now, call[p].key, call[p].value,
                          call[p].timeout)
  /\ last' = Completed(p, call[p], call[p].value, "")
  /\ pc' = [pc EXCEPT ![p] = "idle"]
  /\ call' = [q \in Callers |->
                IF q = p THEN NoCall
                ELSE IF q \in InFlight(call[p].key) /\ call[q].raced
                        /\ call[p].raced
                THEN [call[q] EXCEPT !.peer_set = TRUE]
                ELSE call[q]]
  /\ UNCHANGED <<now, derive, config, shape>>

get_or_compute(p, calls) ==
  \/ GocEnter(p, calls)
  \/ GocIsExpired(p)
  \/ GocGet(p)
  \/ GocCompute(p)
  \/ GocComputeRaises(p)
  \/ GocSet(p)

\* ------------------------------------------------------------------------
\* Specifications
\* ------------------------------------------------------------------------
\* the calls of the pages: cached_positions passes no arguments, the history
\* datasets are asked for with every argument tuple and timeout
Calls ==
  {[key |-> "positions", args |-> <<>>, timeout |-> <<>>]}
  \cup {[key |-> "transaction_history", args |-> a, timeout |-> t] :
          a \in CallArgs, t \in Timeouts}

\* the calls of two script runs that ask for the same dataset at once
ConcCalls ==
  {[key |-> "positions", args |-> <<>>, timeout |-> t] : t \in Timeouts}

\* the pages use the store directly: get, set, clear as time passes
NextOps ==
  \/ Tick
  \/ Get(Names)
  \/ Set(Names)
  \/ Clear(Names)

SpecOps == Init /\ [][NextOps]_vars

\* the pages fill the store with set and inspect it as time passes
NextInspect ==
  \/ Tick
  \/ Set(Names)
  \/ IsExpired
  \/ GetCacheStats

SpecInspect == Init /\ [][NextInspect]_vars

\* one page render at a time goes through get_or_compute: the single-viewer
\* model of the dashboard
Next ==
  \/ Tick
  \/ Clear(Names)
  \/ get_or_compute(1, Calls)

Spec == Init /\ [][Next]_vars

\* two script runs of one session inside get_or_compute at once, for the
\* same dataset
NextConc ==
  \/ Tick
  \/ \E p \in Callers : get_or_compute(p, ConcCalls)

SpecConc == Init /\ [][NextConc]_vars

\* the calls of a page render that asks for both datasets without
\* arguments: one with a ttl of a second, one with the default ttl
LazyCalls ==
  {[key |-> "positions", args |-> <<>>, timeout |-> <<1>>],
   [key |-> "transaction_history", args |-> <<>>, timeout |-> <<>>]}

\* the entries get_or_compute stores, read, inspected and cleared by the
\* pages as time passes
NextLazy ==
  \/ Tick
  \/ Get(Names)
  \/ Clear(Names)
  \/ IsExpired
  \/ GetCacheStats
  \/ get_or_compute(1, LazyCalls)

SpecLazy == Init /\ [][NextLazy]_vars

\* the application starts with whatever REFRESH_INTERVAL the environment
\* holds
InitConfig ==
  /\ InitCache
  /\ derive = NoDerive
  /\ \E env \in RefreshEnv : config = load_config(env)
  /\ shape = NoShape

\* the call CachedAPI.cached_positions(client) makes with its default
\* timeout
ApiCalls ==
  {[key |-> "positions", args |-> <<>>,
    timeout |-> <<cached_positions_timeout>>]}

\* a page stores history data with set, positions come through
\* cached_positions
NextConfig ==
  \/ Tick
  \/ Set({"transaction_history"})
  \/ get_or_compute(1, ApiCalls)

SpecConfig == InitConfig /\ [][NextConfig]_vars

\* the keys set and get take are arbitrary strings, the empty string among
\* them
StoreKeys == {"", "positions"}

\* set, get and clear over those keys, at one instant
NextClear ==
  \/ Get(StoreKeys)
  \/ Set(StoreKeys)
  \/ Clear(StoreKeys)

SpecClear == Init /\ [][NextClear]_vars

\* ------------------------------------------------------------------------
\* get_cache_key as a function of its arguments
\* ------------------------------------------------------------------------
RECURSIVE Reverse(_)
Reverse(l) == IF l = <<>> THEN <<>> ELSE Append(Reverse(Tail(l)), Head(l))

InitKey ==
  /\ InitCache
  /\ config = load_config(<<>>)
  /\ shape = NoShape
  /\ \E key \in Names, args \in {a \in ArgTuples : Len(a) >= 2} :
       derive = [NoDerive EXCEPT !.key = key, !.args = args]

\* get_cache_key(key, *args), get_cache_key(key, *reversed(args)) and
\* get_cache_key(key)
Derive ==
  /\ ~derive.done
  /\ derive' =
       [derive EXCEPT
          !.done = TRUE,
          !.raised = get_cache_key_raises(derive.args),
          !.cache_key =
             IF get_cache_key_raises(derive.args) THEN NoKey
             ELSE get_cache_key(derive.key, derive.args),
          !.reversed_raised = get_cache_key_raises(Reverse(derive.args)),
          !.reversed_cache_key =
             IF get_cache_key_raises(Reverse(derive.args)) THEN NoKey
             ELSE get_cache_key(derive.key, Reverse(derive.args)),
          !.plain_cache_key = get_cache_key(derive.key, <<>>)]
  /\ UNCHANGED <<session_state, now, pc, call, last, config, shape>>

NextKey == Derive

SpecKey == InitKey /\ [][NextKey]_vars

\* ------------------------------------------------------------------------
\* CachedAPI: the wrappers and invalidate_cache
\* ------------------------------------------------------------------------
\* cache_key of the history wrappers: the dataset, with the symbol appended
\* when there is one
history_cache_key(dataset, symbol) ==
  IF symbol = PyNone THEN dataset ELSE dataset \o "_BTCUSDT"

\* the get_or_compute calls the four wrappers make with their defaults,
\* the history wrappers without a symbol and with one
WrapperCalls ==
  {[key |-> "account_info", args |-> <<>>,
    timeout |-> <<cached_account_info_timeout>>],
   [key |-> "positions", args |-> <<>>,
    timeout |-> <<cached_positions_timeout>>]}
  \cup {[key |-> history_cache_key("transaction_history", s),
         args |-> <<s, PyInt(history_limit)>>,
         timeout |-> <<cached_transaction_history_timeout>>] : s \in {PyNone, PyStr(1)}}
  \cup {[key |-> history_cache_key("income_history", s),
         args |-> <<s, PyInt(history_limit)>>,
         timeout |-> <<cached_income_history_timeout>>] : s \in {PyNone, PyStr(1)}}

\* the keys the history wrappers use
HistoryKeys ==
  {history_cache_key(d, s) :
     d \in {"transaction_history", "income_history"},
     s \in {PyNone, PyStr(1)}}

\* CachedAPI.invalidate_cache: session_state afterwards
invalidate_cache(ss, cache_type) ==
  CASE cache_type = "all" -> clear(ss, <<>>)
    [] cache_type = "account" ->
         clear(clear(ss, <<"account_info">>), <<"positions">>)
    [] cache_type = "history" ->
         clear(clear(ss, <<"transaction_history">>), <<"income_history">>)
    [] OTHER -> clear(ss, <<cache_type>>)

\* a page calls cached_api.invalidate_cache(cache_type), 'positions' for
\* its last branch
InvalidateCache ==
  /\ pc[1] = "idle"
  /\ \E cache_type \in {"all", "account", "history", "positions"} :
       /\ session_state' = invalidate_cache(session_state, cache_type)
       /\ last' = [NoOp EXCEPT !.op = "invalidate_cache",
                               !.key = <<cache_type>>]
  /\ UNCHANGED <<now, pc, call, derive, config, shape>>

\* the pages fetch through the wrappers and invalidate as time passes
NextInvalidate ==
  \/ Tick
  \/ get_or_compute(1, WrapperCalls)
  \/ InvalidateCache

SpecInvalidate == Init /\ [][NextInvalidate]_vars

\* ------------------------------------------------------------------------
\* Record shaping: raw records, Position, AccountSummary, DataProcessor
\* ------------------------------------------------------------------------
\* the str the exchange sends for the number n, and the float n
PyNumeral(n) == [t |-> "numeral", v |-> n]
PyFloat(n) == [t |-> "float", v |-> n]

\* float(x) of a numeral, an int or a float: the number
float(x) == x.v

\* safe_float(value, default): default for None, float(value) otherwise
safe_float(value, default) == IF value = PyNone THEN default ELSE float(value)

\* dict.get(k, default)
dict_get(d, k, default) == IF k \in DOMAIN d THEN d[k] ELSE default

abs(x) == IF x < 0 THEN -x ELSE x

RECURSIVE gcd(_, _)
gcd(a, b) == IF b = 0 THEN a ELSE gcd(b, a % b)

\* the quotient n / d of two numbers, d # 0, in lowest terms with a positive
\* denominator (the rounding of float division is left out)
truediv(n, d) ==
  LET g == gcd(abs(n), abs(d))
      sgn == IF d < 0 THEN -1 ELSE 1
  IN [num |-> (sgn * n) \div g, den |-> (sgn * d) \div g]

\* the number 0 and 0.0 as a quotient
Zero == [num |-> 0, den |-> 1]

\* the quantities the exchange reports
Amounts == {-1, 0, 1}
EntryPrices == {-100, 0, 100}
MarkPrices == {110}
Pnls == {-50, 10, 100}

\* a position as futures_position_information and futures_account list it:
\* the amount under 'positionAmt', every number as a numeral
ApiPosition(a, e, m, p) ==
  [k \in {"symbol", "positionAmt", "entryPrice", "markPrice",
          "unrealizedPnl", "notional"} |->
     CASE k = "symbol" -> PyStr(1)
       [] k = "positionAmt" -> PyNumeral(a)
       [] k = "entryPrice" -> PyNumeral(e)
       [] k = "markPrice" -> PyNumeral(m)
       [] k = "unrealizedPnl" -> PyNumeral(p)
       [] k = "notional" -> PyNumeral(a * m)]

\* a position record with the keys Position.from_api_response reads: the
\* amount under 'size', the PnL under 'unrealized_pnl'
SizedPosition(a, e, m, p) ==
  [k \in {"symbol", "size", "entryPrice", "markPrice",
          "unrealized_pnl", "notional"} |->
     CASE k = "symbol" -> PyStr(1)
       [] k = "size" -> PyNumeral(a)
       [] k = "entryPrice" -> PyNumeral(e)
       [] k = "markPrice" -> PyNumeral(m)
       [] k = "unrealized_pnl" -> PyNumeral(p)
       [] k = "notional" -> PyNumeral(a * m)]

RawPositions ==
  {ApiPosition(a, e, m, p) :
     a \in Amounts, e \in EntryPrices, m \in MarkPrices, p \in Pnls}
  \cup {SizedPosition(a, e, m, p) :
          a \in Amounts, e \in EntryPrices, m \in MarkPrices, p \in Pnls}

\* the amount a raw record carries, under whichever key it has
RawAmount(d) ==
  IF "positionAmt" \in DOMAIN d THEN float(d["positionAmt"])
  ELSE float(d["size"])

\* Position.from_api_response
Position_from_api_response(position_data) ==
  [symbol |-> dict_get(position_data, "symbol", PyStr(0)),
   size |-> float(dict_get(position_data, "size", PyInt(0))),
   entry_price |-> float(dict_get(position_data, "entryPrice", PyInt(0))),
   mark_price |-> float(dict_get(position_data, "markPrice", PyInt(0))),
   unrealized_pnl |->
     float(dict_get(position_data, "unrealized_pnl", PyInt(0))),
   notional |-> float(dict_get(position_data, "notional", PyInt(0)))]

\* Position.is_long, Position.is_short
is_long(self) == self.size > 0
is_short(self) == self.size < 0

\* Position.pnl_percentage
pnl_percentage(self) ==
  IF self.entry_price = 0 THEN Zero
  ELSE truediv((self.mark_price - self.entry_price) * 100
                 * (IF is_long(self) THEN 1 ELSE -1),
               self.entry_price)

\* BinanceClient.get_positions, given what futures_position_information
\* returned
get_positions(positions) ==
  LET active(pos) == abs(float(dict_get(pos, "positionAmt", PyInt(0)))) > 0
      shaped(pos) ==
        [k \in {"symbol", "size", "entry_price", "mark_price",
                "unrealized_pnl", "notional"} |->
           CASE k = "symbol" -> dict_get(pos, "symbol", PyStr(0))
             [] k = "size" ->
                  PyFloat(float(dict_get(pos, "positionAmt", PyInt(0))))
             [] k = "entry_price" ->
                  PyFloat(float(dict_get(pos, "entryPrice", PyInt(0))))
             [] k = "mark_price" ->
                  PyFloat(float(dict_get(pos, "markPrice", PyInt(0))))
             [] k = "unrealized_pnl" ->
                  PyFloat(float(dict_get(pos, "unrealizedPnl", PyInt(0))))
             [] k = "notional" ->
                  PyFloat(float(dict_get(pos, "notional", PyInt(0))))]
      active_positions == SelectSeq(positions, active)
  IN [i \in 1..Len(active_positions) |-> shaped(active_positions[i])]

\* one processed position of process_positions_data
processed_position(pos) ==
  LET size == safe_float(dict_get(pos, "size", PyInt(0)), 0)
      entry_price == safe_float(dict_get(pos, "entry_price", PyInt(0)), 0)
      mark_price == safe_float(dict_get(pos, "mark_price", PyInt(0)), 0)
      unrealized_pnl ==
        safe_float(dict_get(pos, "unrealized_pnl", PyInt(0)), 0)
      notional == safe_float(dict_get(pos, "notional", PyInt(0)), 0)
  IN [symbol |-> dict_get(pos, "symbol", PyStr(0)),
      side |-> IF size > 0 THEN "LONG" ELSE "SHORT",
      size |-> abs(size),
      entry_price |-> entry_price,
      mark_price |-> mark_price,
      unrealized_pnl |-> unrealized_pnl,
      pnl_percentage |->
        IF entry_price > 0
        THEN truediv((mark_price - entry_price) * 100
                       * (IF size > 0 THEN 1 ELSE -1),
                     entry_price)
        ELSE Zero,
      notional |-> abs(notional),
      pnl_color |-> IF unrealized_pnl > 0 THEN "green"
                    ELSE IF unrealized_pnl < 0 THEN "red" ELSE "gray"]

\* a sort that puts the smallest absolute PnL first
RECURSIVE sort_ascending(_)
sort_ascending(l) ==
  IF l = <<>> THEN <<>>
  ELSE LET rest == sort_ascending(SubSeq(l, 1, Len(l) - 1))
           x == l[Len(l)]
           n == Cardinality({i \in 1..Len(rest) :
                               abs(rest[i].unrealized_pnl)
                                 <= abs(x.unrealized_pnl)})
       IN SubSeq(rest, 1, n) \o <<x>> \o SubSeq(rest, n + 1, Len(rest))

\* list.sort(key=lambda x: abs(x['unrealized_pnl']), reverse=True): stable,
\* so each element goes behind those before it whose key is not smaller
RECURSIVE sort_by_abs_pnl(_)
sort_by_abs_pnl(l) ==
  IF l = <<>> THEN <<>>
  ELSE LET rest == sort_by_abs_pnl(SubSeq(l, 1, Len(l) - 1))
           x == l[Len(l)]
           n == Cardinality({i \in 1..Len(rest) :
                               abs(rest[i].unrealized_pnl)
                                 >= abs(x.unrealized_pnl)})
       IN SubSeq(rest, 1, n) \o <<x>> \o SubSeq(rest, n + 1, Len(rest))

\* DataProcessor.process_positions_data
process_positions_data(positions) ==
  sort_by_abs_pnl([i \in 1..Len(positions) |->
                     processed_position(positions[i])])

RECURSIVE sum(_)
sum(l) == IF l = <<>> THEN 0 ELSE Head(l) + sum(Tail(l))

\* AccountSummary.from_api_response
AccountSummary_from_api_response(account_data) ==
  LET held(pos) == abs(float(dict_get(pos, "positionAmt", PyInt(0)))) > 0
      kept == SelectSeq(account_data.positions, held)
  IN [total_balance |-> float(account_data.total_balance),
      total_unrealized_pnl |-> float(account_data.total_unrealized_pnl),
      positions |-> [i \in 1..Len(kept) |->
                       Position_from_api_response(kept[i])]]

\* DataProcessor.process_account_summary: the quotients it returns, or the
\* ZeroDivisionError of its division by total_balance - total_unrealized_pnl
process_account_summary(account_data) ==
  LET summary == AccountSummary_from_api_response(account_data)
      total_exposure ==
        sum([i \in 1..Len(summary.positions) |->
               abs(summary.positions[i].notional)])
      invested == summary.total_balance - summary.total_unrealized_pnl
  IN IF summary.total_balance > 0 /\ invested = 0
     THEN [NoResult EXCEPT !.raised = "ZeroDivisionError"]
     ELSE [raised |-> "",
           total_exposure |-> total_exposure,
           leverage_usage |->
             IF summary.total_balance > 0
             THEN truediv(total_exposure, summary.total_balance) ELSE Zero,
           pnl_percentage |->
             IF summary.total_balance > 0
             THEN truediv(summary.total_unrealized_pnl * 100, invested)
             ELSE Zero]

\* Position.from_api_response on every raw record
FromApiResponse ==
  /\ shape.stage = "raw"
  /\ shape' = [shape EXCEPT
                 !.stage = "from_api_response",
                 !.objects = [i \in 1..Len(shape.raw) |->
                                Position_from_api_response(shape.raw[i])]]
  /\ UNCHANGED <<session_state, now, pc, call, last, derive, config>>

\* client.get_positions()
GetPositions ==
  /\ shape.stage = "raw"
  /\ shape' = [shape EXCEPT !.stage = "get_positions",
                            !.positions = get_positions(shape.raw)]
  /\ UNCHANGED <<session_state, now, pc, call, last, derive, config>>

\* process_positions_data(positions), on the list get_positions returned or
\* on the list the caller holds
ProcessPositions ==
  /\ shape.stage \in {"get_positions", "positions"}
  /\ shape' = [shape EXCEPT
                 !.stage = "process_positions_data",
                 !.processed = process_positions_data(shape.positions)]
  /\ UNCHANGED <<session_state, now, pc, call, last, derive, config>>

\* process_account_summary(account_data)
ProcessAccountSummary ==
  /\ shape.stage = "account"
  /\ shape' = [shape EXCEPT
                 !.stage = "process_account_summary",
                 !.summary =
                    AccountSummary_from_api_response(shape.account_data),
                 !.result = process_account_summary(shape.account_data)]
  /\ UNCHANGED <<session_state, now, pc, call, last, derive, config>>

\* one raw position record goes through the shaping functions
InitShape ==
  /\ InitCache
  /\ derive = NoDerive
  /\ config = load_config(<<>>)
  /\ \E r \in RawPositions :
       shape = [NoShape EXCEPT !.stage = "raw", !.raw = <<r>>]

NextShape ==
  \/ FromApiResponse
  \/ GetPositions
  \/ ProcessPositions

SpecShape == InitShape /\ [][NextShape]_vars

\* the absolute PnLs tie for -50 and 50
SortPnls == Pnls \cup {50}

\* position lists as client.get_positions returns them, differing in their
\* unrealized PnL
SortPositions ==
  {get_positions(<<ApiPosition(1, 100, 110, p)>>)[1] : p \in SortPnls}

InitSort ==
  /\ InitCache
  /\ derive = NoDerive
  /\ config = load_config(<<>>)
  /\ \E l \in SeqsUpTo(SortPositions, MaxPositions) :
       shape = [NoShape EXCEPT !.stage = "positions", !.positions = l]

NextSort == ProcessPositions

SpecSort == InitSort /\ [][NextSort]_vars

\* the balances and unrealized PnL totals of an account
Balances == {0, 50, 100}
TotalPnls == {-50, 0, 50}

\* the positions futures_account lists, and records keyed as
\* Position.from_api_response reads them
AccountPositions ==
  {ApiPosition(a, 100, 110, 10) : a \in Amounts}
  \cup {SizedPosition(a, 100, 110, 10) : a \in Amounts}

InitAccount ==
  /\ InitCache
  /\ derive = NoDerive
  /\ config = load_config(<<>>)
  /\ \E b \in Balances, p \in TotalPnls,
        l \in SeqsUpTo(AccountPositions, MaxPositions) :
       shape = [NoShape EXCEPT
                  !.stage = "account",
                  !.account_data =
                     [total_balance |-> PyFloat(b),
                      total_unrealized_pnl |-> PyFloat(p),
                      positions |-> l]]

NextAccount == ProcessAccountSummary

SpecAccount == InitAccount /\ [][NextAccount]_vars

\* ------------------------------------------------------------------------
\* Trades: get_transaction_history, process_trades_data,
\* calculate_performance_metrics
\* ------------------------------------------------------------------------
\* NaN, and a timestamp that falls on day d
PyNaN == [t |-> "nan", v |-> 0]
PyTime(d) == [t |-> "time", v |-> d]

\* pd.to_numeric(x, errors='coerce') of one cell
to_numeric(x) ==
  IF x.t \in {"numeral", "int", "float"} THEN PyFloat(x.v) ELSE PyNaN

\* pd.DataFrame(records): the columns are the keys of the records, a key a
\* record lacks is NaN in its row
DataFrame(records) ==
  LET columns == UNION {DOMAIN records[i] : i \in 1..Len(records)}
  IN [columns |-> columns,
      rows |-> [i \in 1..Len(records) |->
                  [c \in columns |->
                     IF c \in DOMAIN records[i] THEN records[i][c]
                     ELSE PyNaN]]]

\* df[col] = pd.to_numeric(df[col], errors='coerce') for the columns of
\* cols that df has
to_numeric_columns(df, cols) ==
  [df EXCEPT !.rows =
     [i \in 1..Len(df.rows) |->
        [c \in df.columns |->
           IF c \in cols THEN to_numeric(df.rows[i][c])
           ELSE df.rows[i][c]]]]

\* a realized PnL worked out from the side, the quantity and the price
realized_pnl_from_fill(row) ==
  IF "qty" \in DOMAIN row /\ "price" \in DOMAIN row
     /\ row["qty"] # PyNaN /\ row["price"] # PyNaN
  THEN PyFloat(row["qty"].v * row["price"].v)
  ELSE PyNaN

\* BinanceClient._calculate_realized_pnl: -commission
calculate_realized_pnl(row) ==
  LET commission == dict_get(row, "commission", PyInt(0))
  IN IF commission = PyNaN THEN PyNaN ELSE PyFloat(-float(commission))

\* BinanceClient.get_transaction_history, given what futures_account_trades
\* returned
get_transaction_history(trades) ==
  IF trades = <<>> THEN EmptyFrame
  ELSE LET df == to_numeric_columns(DataFrame(trades),
                                    {"qty", "quoteQty", "price",
                                     "commission"})
       IN [columns |-> df.columns \cup {"realized_pnl"},
           rows |-> [i \in 1..Len(df.rows) |->
                       [c \in df.columns \cup {"realized_pnl"} |->
                          IF c = "realized_pnl"
                          THEN calculate_realized_pnl(df.rows[i])
                          ELSE df.rows[i][c]]]]

\* the numbers of a list of cells, NaN skipped
RECURSIVE sum_skipna(_)
sum_skipna(cells) ==
  IF cells = <<>> THEN 0
  ELSE (IF Head(cells) = PyNaN THEN 0 ELSE Head(cells).v)
       + sum_skipna(Tail(cells))

\* Series.count(): the cells that are not NaN
count(cells) == Cardinality({i \in 1..Len(cells) : cells[i] # PyNaN})

\* df[col] of the rows whose column by holds key
Column(df, col, by, key) ==
  LET picked == SelectSeq(df.rows, LAMBDA r : r[by] = key)
  IN [i \in 1..Len(picked) |-> picked[i][col]]

\* df[col]
Series(df, col) == [i \in 1..Len(df.rows) |-> df.rows[i][col]]

\* df.groupby(by).agg({'qty': 'count', 'quoteQty': 'sum',
\* 'commission': 'sum'}).rename(columns={'qty': 'trade_count'}): a row per
\* key of the column by (NaN is no key)
group_stats(df, by) ==
  LET keys == {df.rows[i][by] : i \in 1..Len(df.rows)} \ {PyNaN}
  IN [k \in keys |->
        [trade_count |-> count(Column(df, "qty", by, k)),
         quoteQty |-> sum_skipna(Column(df, "quoteQty", by, k)),
         commission |-> sum_skipna(Column(df, "commission", by, k))]]

\* pd.to_datetime(x).dt.date of one cell: the day of a timestamp
date(x) == IF x.t = "time" THEN PyInt(x.v) ELSE PyNaN

\* DataProcessor.process_trades_data: what it returns or raises, and the
\* frame it was given as it is afterwards
process_trades_data(trades_df) ==
  IF trades_df.rows = <<>>
  THEN [result |-> NoTradesResult, trades_df |-> trades_df]
  ELSE
    LET numeric == to_numeric_columns(trades_df,
                                      {"qty", "quoteQty", "price",
                                       "commission", "realized_pnl"})
        has(c) == c \in numeric.columns
        qty == Series(numeric, "qty")
        dated ==
          IF has("time")
          THEN [columns |-> numeric.columns \cup {"date"},
                rows |-> [i \in 1..Len(numeric.rows) |->
                            [c \in numeric.columns \cup {"date"} |->
                               IF c = "date"
                               THEN date(numeric.rows[i]["time"])
                               ELSE numeric.rows[i][c]]]]
          ELSE numeric
        aggregated == {"qty", "quoteQty", "commission"}
    IN IF (has("symbol") \/ has("time"))
          /\ ~(aggregated \subseteq numeric.columns)
       THEN [result |-> [NoTradesResult EXCEPT !.raised = "KeyError"],
             trades_df |-> IF has("symbol") THEN numeric ELSE dated]
       ELSE
         [result |->
            [raised |-> "",
             total_trades |-> Len(numeric.rows),
             total_volume |->
               IF has("quoteQty")
               THEN sum_skipna(Series(numeric, "quoteQty")) ELSE 0,
             total_commission |->
               IF has("commission")
               THEN sum_skipna(Series(numeric, "commission")) ELSE 0,
             win_rate |-> <<>>,
             avg_trade_size |->
               IF ~has("qty") THEN [num |-> 0, den |-> 1]
               ELSE IF count(qty) = 0 THEN [num |-> 0, den |-> 0]
               ELSE truediv(sum_skipna(qty), count(qty)),
             trades_by_symbol |->
               IF has("symbol") THEN <<group_stats(numeric, "symbol")>>
               ELSE <<>>,
             trades_by_day |->
               IF has("time") THEN <<group_stats(dated, "date")>>
               ELSE <<>>],
          trades_df |-> dated]

\* a calculate_performance_metrics that reports the win rate as a share of
\* all trades
win_rate_of_all(winning_trades, returns, trades) ==
  truediv(Len(winning_trades) * 100, trades)

\* len(winning_trades) / len(returns) * 100
win_rate_of(winning_trades, returns, trades) ==
  truediv(Len(winning_trades) * 100, Len(returns))

\* DataProcessor.calculate_performance_metrics; std() of the returns is
\* positive when two of them differ, and float('inf') is the quotient 1/0
calculate_performance_metrics(trades_df) ==
  IF trades_df.rows = <<>> \/ "realized_pnl" \notin trades_df.columns
  THEN NoMetrics
  ELSE
    LET returns == SelectSeq(Series(trades_df, "realized_pnl"),
                             LAMBDA x : x = PyNaN \/ x.v # 0)
        winning_trades == SelectSeq(returns, LAMBDA x : x # PyNaN /\ x.v > 0)
        losing_trades == SelectSeq(returns, LAMBDA x : x # PyNaN /\ x.v < 0)
        values(l) == {l[i].v : i \in {j \in 1..Len(l) : l[j] # PyNaN}}
        total_wins == sum_skipna(winning_trades)
        total_losses == abs(sum_skipna(losing_trades))
    IN IF returns = <<>> THEN NoMetrics
       ELSE [sharpe_ratio |->
               [computed |-> Len(returns) > 1
                             /\ Cardinality(values(returns)) > 1,
                v |-> 0],
             max_drawdown |-> 0,
             win_rate |->
               win_rate_of(winning_trades, returns, Len(trades_df.rows)),
             profit_factor |->
               IF total_losses > 0 THEN truediv(total_wins, total_losses)
               ELSE [num |-> 1, den |-> 0],
             avg_win |->
               IF winning_trades # <<>>
               THEN truediv(total_wins, Len(winning_trades))
               ELSE [num |-> 0, den |-> 1],
             avg_loss |->
               IF losing_trades # <<>>
               THEN truediv(sum_skipna(losing_trades), Len(losing_trades))
               ELSE [num |-> 0, den |-> 1],
             largest_win |->
               IF winning_trades # <<>>
               THEN CHOOSE x \in values(winning_trades) :
                      \A y \in values(winning_trades) : y <= x
               ELSE 0,
             largest_loss |->
               IF losing_trades # <<>>
               THEN CHOOSE x \in values(losing_trades) :
                      \A y \in values(losing_trades) : x <= y
               ELSE 0]

\* client.get_transaction_history(symbol, limit)
GetTransactionHistory ==
  /\ shape.stage = "trades"
  /\ shape' = [shape EXCEPT
                 !.stage = "get_transaction_history",
                 !.trades_df = get_transaction_history(shape.trades)]
  /\ UNCHANGED <<session_state, now, pc, call, last, derive, config>>

\* process_trades_data(trades_df), a first and a second time on the frame
\* the page holds
ProcessTrades ==
  /\ shape.stage \in {"get_transaction_history", "process_trades_data"}
  /\ shape.calls < 2
  /\ LET r == process_trades_data(shape.trades_df)
     IN shape' = [shape EXCEPT
                    !.stage = "process_trades_data",
                    !.calls = @ + 1,
                    !.trades_result = r.result,
                    !.first_result =
                       IF shape.calls = 0 THEN r.result ELSE @,
                    !.trades_df = r.trades_df]
  /\ UNCHANGED <<session_state, now, pc, call, last, derive, config>>

\* calculate_performance_metrics(trades_df, positions)
PerformanceMetrics ==
  /\ shape.stage = "get_transaction_history"
  /\ shape' = [shape EXCEPT
                 !.stage = "calculate_performance_metrics",
                 !.metrics = calculate_performance_metrics(shape.trades_df)]
  /\ UNCHANGED <<session_state, now, pc, call, last, derive, config>>

\* a trade as futures_account_trades lists it: the first symbol is bought
\* at 100, the second sold at 200
ApiTrade(symbol, qty, commission) ==
  [k \in {"symbol", "side", "qty", "quoteQty", "price", "commission",
          "time"} |->
     CASE k = "symbol" -> PyStr(symbol)
       [] k = "side" -> PyStr(2 + symbol)
       [] k = "qty" -> qty
       [] k = "quoteQty" -> PyNumeral(100)
       [] k = "price" -> PyNumeral(100 * symbol)
       [] k = "commission" -> PyNumeral(commission)
       [] k = "time" -> PyTime(1)]

\* the trades listed: qty a numeral or a str that is no number, the
\* commission charged or, negative, rebated
InitTrades ==
  /\ InitCache
  /\ derive = NoDerive
  /\ config = load_config(<<>>)
  /\ LET ApiTrades ==
           {ApiTrade(s, q, c) : s \in {1, 2}, q \in {PyNumeral(1), PyStr(0)},
                                c \in {-20, -10, 0, 5}}
     IN \E l \in SeqsUpTo(ApiTrades, MaxTrades) :
          shape = [NoShape EXCEPT !.stage = "trades", !.trades = l]

NextTrades ==
  \/ GetTransactionHistory
  \/ ProcessTrades
  \/ PerformanceMetrics

SpecTrades == InitTrades /\ [][NextTrades]_vars

\* ------------------------------------------------------------------------
\* Income: get_income_history, process_income_data
\* ------------------------------------------------------------------------
\* the rows process_income_data reports as recent
recent_limit == 10

\* BinanceClient.get_income_history, given what futures_income_history
\* returned
get_income_history(income) ==
  IF income = <<>> THEN EmptyFrame
  ELSE to_numeric_columns(DataFrame(income), {"income"})

\* df.head(n)
head(rows, n) == SubSeq(rows, 1, IF Len(rows) < n THEN Len(rows) ELSE n)

\* the first n rows, whatever their column col
nfirst(rows, n, col) == head(rows, n)

\* df.nlargest(n, col): the n rows with the largest col, largest first, of
\* equal ones the earlier row first; a row whose col is NaN comes last
RECURSIVE nlargest(_, _, _)
nlargest(rows, n, col) ==
  IF n = 0 \/ rows = <<>> THEN <<>>
  ELSE LET rank(r) == IF r[col] = PyNaN THEN -1 ELSE r[col].v
           top == CHOOSE i \in 1..Len(rows) :
                    /\ \A j \in 1..Len(rows) : rank(rows[j]) <= rank(rows[i])
                    /\ \A j \in 1..(i - 1) : rank(rows[j]) < rank(rows[i])
           rest == SubSeq(rows, 1, top - 1)
                     \o SubSeq(rows, top + 1, Len(rows))
       IN <<rows[top]>> \o nlargest(rest, n - 1, col)

\* DataProcessor.process_income_data: what it returns or raises, and the
\* frame it was given as it is afterwards
process_income_data(income_df) ==
  IF income_df.rows = <<>>
  THEN [result |-> NoIncomeResult, income_df |-> income_df]
  ELSE
    LET numeric == to_numeric_columns(income_df, {"income"})
        has(c) == c \in numeric.columns
        dated ==
          IF has("time")
          THEN [columns |-> numeric.columns \cup {"date"},
                rows |-> [i \in 1..Len(numeric.rows) |->
                            [c \in numeric.columns \cup {"date"} |->
                               IF c = "date"
                               THEN date(numeric.rows[i]["time"])
                               ELSE numeric.rows[i][c]]]]
          ELSE numeric
        types == {numeric.rows[i]["incomeType"] : i \in 1..Len(numeric.rows)}
                   \ {PyNaN, PyNone}
    IN IF ~has("income")
       THEN [result |-> [NoIncomeResult EXCEPT !.raised = "KeyError"],
             income_df |-> numeric]
       ELSE
         [result |->
            [raised |-> "",
             total_income |-> sum_skipna(Series(numeric, "income")),
             income_by_type |->
               IF has("incomeType")
               THEN [k \in types |->
                       sum_skipna(Column(numeric, "income", "incomeType", k))]
               ELSE <<>>,
             recent_income |->
               IF has("time") THEN nlargest(dated.rows, recent_limit, "time")
               ELSE head(dated.rows, recent_limit)],
          income_df |-> dated]

\* client.get_income_history(symbol, limit)
GetIncomeHistory ==
  /\ shape.stage = "income"
  /\ shape' = [shape EXCEPT
                 !.stage = "get_income_history",
                 !.income_df = get_income_history(shape.income)]
  /\ UNCHANGED <<session_state, now, pc, call, last, derive, config>>

\* process_income_data(income_df)
ProcessIncome ==
  /\ shape.stage = "get_income_history"
  /\ LET r == process_income_data(shape.income_df)
     IN shape' = [shape EXCEPT
                    !.stage = "process_income_data",
                    !.income_result = r.result,
                    !.income_df = r.income_df]
  /\ UNCHANGED <<session_state, now, pc, call, last, derive, config>>

\* the i-th income record futures_income_history lists: its tranId is i,
\* its income -10, 0 or 10, its type one of two, or null for the first
\* record of a list that is not typed throughout; by step the timestamps
\* of a list are all equal (0), rising (1), scattered (5) or falling (12)
ApiIncome(i, step, typed) ==
  [k \in {"tranId", "income", "incomeType", "time"} |->
     CASE k = "tranId" -> PyInt(i)
       [] k = "income" -> PyNumeral((i % 3) * 10 - 10)
       [] k = "incomeType" -> IF typed \/ i > 1 THEN PyStr(i % 2) ELSE PyNone
       [] k = "time" -> PyTime((step * i) % 13)]

InitIncome ==
  /\ InitCache
  /\ derive = NoDerive
  /\ config = load_config(<<>>)
  /\ \E n \in 0..MaxIncome, step \in {0, 1, 5, 12}, typed \in BOOLEAN :
       shape = [NoShape EXCEPT
                  !.stage = "income",
                  !.income = [i \in 1..n |-> ApiIncome(i, step, typed)]]

NextIncome ==
  \/ GetIncomeHistory
  \/ ProcessIncome

SpecIncome == InitIncome /\ [][NextIncome]_vars

\* ------------------------------------------------------------------------
\* Model classes: what from_api_response raises
\* ------------------------------------------------------------------------
\* what float(x) and int(x) raise: TypeError for None, ValueError for a str
\* that is no number, nothing for a number or a numeral
conversion_error(x) ==
  CASE x.t = "none" -> "TypeError"
    [] x.t = "str" -> "ValueError"
    [] OTHER -> ""

\* the keys from_api_response converts with float() or int(), in the order
\* of the constructor's arguments
Converted(cls) ==
  CASE cls = "Asset" ->
         <<"walletBalance", "unrealizedPnl", "marginBalance", "maintMargin",
           "initialMargin", "positionInitialMargin",
           "openOrderInitialMargin", "crossWalletBalance", "crossUnPnl",
           "availableBalance", "maxWithdrawAmount">>
    [] cls = "Position" ->
         <<"size", "entryPrice", "markPrice", "unrealized_pnl", "percentage",
           "leverage", "notional">>
    [] cls = "Trade" ->
         <<"qty", "price", "commission", "time", "orderId", "orderListId">>
    [] cls = "IncomeRecord" -> <<"income", "time", "tranId", "tradeId">>
    [] cls = "AccountSummary" ->
         <<"total_balance", "total_unrealized_pnl", "total_wallet_balance",
           "available_balance", "margin_balance">>

\* the first error the conversions of keys raise on fields; a key that is
\* absent gets a numeric default
RECURSIVE first_error(_, _)
first_error(keys, fields) ==
  IF keys = <<>> THEN ""
  ELSE LET e == conversion_error(dict_get(fields, Head(keys), PyInt(0)))
       IN IF e # "" THEN e ELSE first_error(Tail(keys), fields)

\* the first error building one object of cls for each record of a list
RECURSIVE first_error_in(_, _)
first_error_in(cls, records) ==
  IF records = <<>> THEN ""
  ELSE LET e == first_error(Converted(cls), Head(records))
       IN IF e # "" THEN e ELSE first_error_in(cls, Tail(records))

\* the first error of the positions comprehension of
\* AccountSummary.from_api_response: float(pos.get('positionAmt', 0)), then
\* Position.from_api_response for a non-zero amount
RECURSIVE first_error_in_positions(_)
first_error_in_positions(records) ==
  IF records = <<>> THEN ""
  ELSE LET amount == dict_get(Head(records), "positionAmt", PyInt(0))
           e == conversion_error(amount)
           built == IF abs(float(amount)) > 0
                    THEN first_error(Converted("Position"), Head(records))
                    ELSE ""
       IN IF e # "" THEN e
          ELSE IF built # "" THEN built
          ELSE first_error_in_positions(Tail(records))

\* what cls.from_api_response(data) raises, "" when it returns
from_api_response_raises(cls, data) ==
  IF cls # "AccountSummary" THEN first_error(Converted(cls), data.fields)
  ELSE LET assets == first_error_in("Asset", data.assets)
           positions == first_error_in_positions(data.positions)
       IN IF assets # "" THEN assets
          ELSE IF positions # "" THEN positions
          ELSE first_error(Converted(cls), data.fields)

\* cls.from_api_response(data)
BuildRecord ==
  /\ shape.stage = "record"
  /\ shape' = [shape EXCEPT
                 !.stage = "from_api_response_of",
                 !.raised = from_api_response_raises(shape.cls, shape.data)]
  /\ UNCHANGED <<session_state, now, pc, call, last, derive, config>>

\* the raw records: no key at all, or one converted key with a value (a
\* number, a numeral, null, a str that is no number); for an account also
\* one raw asset or one raw position of that kind
RawRecords(cls) ==
  LET RawValues == {PyInt(1), PyNumeral(1), PyNone, PyStr(0)}
      dicts(c) ==
        {<<>>} \cup {[k \in {Converted(c)[i]} |-> v] :
                       i \in 1..Len(Converted(c)), v \in RawValues}
      amounts == {[k \in {"positionAmt"} |-> v] : v \in RawValues}
  IN {[NoData EXCEPT !.fields = d] : d \in dicts(cls)}
       \cup (IF cls = "AccountSummary"
             THEN {[NoData EXCEPT !.assets = <<d>>] : d \in dicts("Asset")}
                    \cup {[NoData EXCEPT !.positions = <<d>>] : d \in amounts}
             ELSE {})

InitRecords ==
  /\ InitCache
  /\ derive = NoDerive
  /\ config = load_config(<<>>)
  /\ \E cls \in {"Asset", "Position", "Trade", "IncomeRecord",
                 "AccountSummary"} :
     \E data \in RawRecords(cls) :
       shape = [NoShape EXCEPT !.stage = "record", !.cls = cls,
                               !.data = data]

NextRecords == BuildRecord

SpecRecords == InitRecords /\ [][NextRecords]_vars

\* ------------------------------------------------------------------------
\* Properties
\* ------------------------------------------------------------------------
CacheKeys(ss) == {k \in DOMAIN ss : k.prefix = cache_key_prefix}

\* C1: a get(key, default) on an entry that set wrote returns the stored
\* value and keeps the entry when now - timestamp < ttl; in every other case
\* it returns the default and no entry for the key is in the store
\* afterwards (the rest of the store is untouched)
C1_GetServesWithinWindow ==
  [][last'.op = "get" =>
       LET k == get_cache_key(last'.key[1], <<>>)
       IN IF k \in DOMAIN session_state
             /\ now - session_state[k].timestamp < session_state[k].timeout
          THEN /\ last'.ret = session_state[k].data
               /\ session_state' = session_state
          ELSE /\ last'.ret = last'.value
               /\ k \notin DOMAIN session_state'
               /\ \A x \in DOMAIN session_state \ {k} :
                    x \in DOMAIN session_state'
                    /\ session_state'[x] = session_state[x]]_vars

\* a get has just found its entry expired, returned
\* the default and evicted the entry
C1_Witness ==
  /\ last.op = "get"
  /\ last.outcome = "expired"
  /\ last.ret = Sentinel
  /\ get_cache_key(last.key[1], <<>>) \notin DOMAIN session_state

\* C2: the producer of a get_or_compute call is never invoked at an instant
\* at which the entry of the call's name is fresh, whatever payload the
\* entry holds
C2_FreshEntryNotRecomputed ==
  (last.op = "get_or_compute" /\ last.invoked > 0) => ~last.invoked_fresh

\* C3: a get_or_compute call invokes its producer at most once, and exactly
\* once when the entry of its name was absent or expired as it was called
C3_StaleCallInvokesOnce ==
  last.op = "get_or_compute" =>
    /\ last.invoked <= 1
    /\ last.stale_at_call => last.invoked = 1

\* C4: after a get_or_compute call with arguments has missed and returned,
\* its result is in the store under get_cache_key(name, *args) and not
\* under get_cache_key(name)
C4_StoredUnderQualifiedKey ==
  (/\ last.op = "get_or_compute"
   /\ last.raised = ""
   /\ last.invoked = 1
   /\ last.args # <<>>) =>
    /\ get_cache_key(last.key[1], last.args) \in DOMAIN session_state
    /\ get_cache_key(last.key[1], <<>>) \notin DOMAIN session_state

\* C5: the upstream data a get_or_compute call returns was fetched for the
\* argument tuple of that call
C5_ResultIsForOwnArguments ==
  (/\ last.op = "get_or_compute"
   /\ last.raised = ""
   /\ last.ret.src = "producer") =>
    last.ret.args = last.args

\* C6: a get_or_compute call on an absent or expired entry does not raise
\* from the cache layer: it ends with its producer's result or its
\* producer's error
C6_MissNeverRaises ==
  (last.op = "get_or_compute" /\ last.stale_at_call) =>
    last.raised \in {""} \cup ProducerErrors

\* C7: the step in which the producer raises hands that very error to the
\* caller and leaves the store as it is; and until a call reaches its set,
\* no step creates an entry or changes one (entries can only disappear)
C7_ProducerErrorCachesNothing ==
  [][/\ (last'.op = "get_or_compute" /\ last'.producer_raised # "") =>
          /\ last'.raised = last'.producer_raised
          /\ session_state' = session_state
     /\ pc[1] \in {"is_expired", "get", "compute"} =>
          \A k \in DOMAIN session_state' :
            k \in DOMAIN session_state
            /\ session_state'[k] = session_state[k]]_vars

\* the producer of a call on an expired entry has just raised, and the
\* expired entry is still in the store
C7_Witness ==
  /\ last.op = "get_or_compute"
  /\ last.raised \in ProducerErrors
  /\ last.stale_at_call
  /\ get_cache_key(last.key[1], <<>>) \in DOMAIN session_state

\* C8: a call that missed while another call for the same name was between
\* its own miss and its set has invoked its producer exactly once when it
\* ends, and when it ends by storing, the store holds one entry for the name
\* and it is this call's value, this call's timestamp and this call's ttl
C8_LastWriterWinsWhole ==
  (last.op = "get_or_compute" /\ last.raced) =>
    /\ last.invoked = 1
    /\ last.raised = "" =>
         /\ Cardinality({k \in CacheKeys(session_state) :
                           k.key = last.key[1]}) = 1
         /\ session_state[get_cache_key(last.key[1], <<>>)] =
              [data |-> last.ret, timestamp |-> now,
               timeout |-> IF last.timeout = <<>> THEN default_timeout
                           ELSE last.timeout[1]]

\* both calls have missed, both have stored, both have returned: the later
\* one has overwritten the entry of the earlier one
C8_Witness ==
  /\ last.op = "get_or_compute"
  /\ last.raced
  /\ last.peer_set
  /\ last.raised = ""
  /\ \A p \in Callers : pc[p] = "idle"

\* C9: get_cache_key(name) is the prefix followed by name; get_cache_key of
\* two or more arguments returns, for the arguments in reverse order, the
\* same key, and that key is not get_cache_key(name)
C9_KeyIgnoresArgumentOrder ==
  derive.done =>
    /\ derive.plain_cache_key =
         [prefix |-> cache_key_prefix, key |-> derive.key, suffix |-> <<>>]
    /\ ~derive.raised
    /\ ~derive.reversed_raised
    /\ derive.cache_key = derive.reversed_cache_key
    /\ derive.cache_key # derive.plain_cache_key

\* C10: set(key, value, ttl) leaves under key exactly (value, now, ttl or
\* default_timeout), adds no other key, changes no other entry, and a get
\* at the same instant returns value when the ttl is positive
C10_SetOverwritesOnlyItsKey ==
  [][last'.op = "set" =>
       LET k == get_cache_key(last'.key[1], <<>>)
           ttl == IF last'.timeout = <<>> THEN default_timeout
                  ELSE last'.timeout[1]
       IN /\ DOMAIN session_state' = DOMAIN session_state \cup {k}
          /\ session_state'[k] =
               [data |-> last'.value, timestamp |-> now, timeout |-> ttl]
          /\ \A x \in DOMAIN session_state \ {k} :
               session_state'[x] = session_state[x]
          /\ ttl > 0 =>
               get(session_state', now', last'.key[1], Sentinel).ret =
                 last'.value]_vars

\* a set has just replaced an entry while the other dataset has one too
C10_Witness ==
  /\ last.op = "set"
  /\ last.outcome # "absent"
  /\ Cardinality(CacheKeys(session_state)) = 2

\* C11: is_expired(key) returns true exactly when key has no entry or
\* now - timestamp >= ttl; it returns false exactly when a get(key) at the
\* same instant returns the stored value, the boundary now - timestamp = ttl
\* included; and it leaves the store as it is
C11_IsExpiredAgreesWithGet ==
  [][last'.op = "is_expired_call" =>
       LET key == last'.key[1]
           k == get_cache_key(key, <<>>)
           read == get(session_state, now, key, Sentinel)
       IN /\ last'.expired <=>
               (k \notin DOMAIN session_state
                \/ now - session_state[k].timestamp
                     >= session_state[k].timeout)
          /\ ~last'.expired <=>
               (/\ k \in DOMAIN session_state
                /\ read.ret = session_state[k].data
                /\ read.ret # Sentinel)
          /\ session_state' = session_state]_vars

\* is_expired has just answered true for an entry with a positive ttl at
\* the very instant its window ends, and the entry is still in the store
C11_Witness ==
  /\ last.op = "is_expired_call"
  /\ last.expired
  /\ LET k == get_cache_key(last.key[1], <<>>)
     IN /\ k \in DOMAIN session_state
        /\ session_state[k].timeout > 0
        /\ now - session_state[k].timestamp = session_state[k].timeout

\* C12: clear(k) removes exactly the entry of k, whatever string k is, and
\* changes no other entry; clear() removes every entry of the cache
\* namespace and leaves the session entries outside it as they are
C12_ClearRemovesExactlyItsKey ==
  [][last'.op = "clear" =>
       IF last'.key # <<>>
       THEN LET k == get_cache_key(last'.key[1], <<>>)
            IN /\ DOMAIN session_state' = DOMAIN session_state \ {k}
               /\ \A x \in DOMAIN session_state' :
                    session_state'[x] = session_state[x]
       ELSE /\ CacheKeys(session_state') = {}
            /\ DOMAIN session_state' =
                 DOMAIN session_state \ CacheKeys(session_state)
            /\ \A x \in DOMAIN session_state' :
                 session_state'[x] = session_state[x]]_vars

\* the entry under cache key k has outlived its window at instant t
Elapsed(ss, t, k) == t - ss[k].timestamp >= ss[k].timeout

\* C13: an entry whose window has elapsed is still in the store, unchanged,
\* after every step, except a get on its key (a page's, or the one inside
\* get_or_compute), a clear, or the set on its key that replaces it; a step
\* in which the producer of get_or_compute raises is none of these
C13_ExpiredEntriesAreNotSwept ==
  [][\A k \in CacheKeys(session_state) :
       Elapsed(session_state, now, k) =>
         \/ /\ k \in DOMAIN session_state'
            /\ session_state'[k] = session_state[k]
         \/ /\ last'.op = "get"
            /\ get_cache_key(last'.key[1], <<>>) = k
         \/ /\ pc[1] = "get"
            /\ get_cache_key(call[1].key, <<>>) = k
         \/ /\ last'.op = "clear"
            /\ last'.key = <<>> \/ get_cache_key(last'.key[1], <<>>) = k
         \/ /\ pc[1] = "set"
            /\ get_cache_key(call[1].key, <<>>) = k
            /\ k \in DOMAIN session_state']_vars

\* the producer of a get_or_compute call has just raised, and the entry of
\* the call's key, whose window had elapsed before, is still in the store
C13_Witness ==
  /\ last.op = "get_or_compute"
  /\ last.producer_raised # ""
  /\ LET k == get_cache_key(last.key[1], <<>>)
     IN /\ k \in DOMAIN session_state
        /\ now - session_state[k].timestamp > session_state[k].timeout

\* C14: get_cache_stats reports as total_entries the number of entries in
\* the cache namespace, as expired_entries the number of those with
\* now - timestamp >= ttl, as valid_entries their difference, which is not
\* negative; and the call leaves the store as it is
C14_StatsCountWithoutEvicting ==
  [][last'.op = "get_cache_stats" =>
       LET entries == CacheKeys(session_state)
           elapsed == {k \in entries : Elapsed(session_state, now, k)}
       IN /\ last'.stats.total_entries = Cardinality(entries)
          /\ last'.stats.expired_entries = Cardinality(elapsed)
          /\ last'.stats.valid_entries =
               last'.stats.total_entries - last'.stats.expired_entries
          /\ last'.stats.valid_entries >= 0
          /\ session_state' = session_state]_vars

\* get_cache_stats has just reported one live entry and one expired entry,
\* the expired one at the very instant its window ended, and both are
\* still in the store
C14_Witness ==
  /\ last.op = "get_cache_stats"
  /\ last.stats = [total_entries |-> 2, expired_entries |-> 1,
                   valid_entries |-> 1]
  /\ Cardinality(CacheKeys(session_state)) = 2
  /\ \E k \in CacheKeys(session_state) :
       /\ session_state[k].timeout > 0
       /\ now - session_state[k].timestamp = session_state[k].timeout

\* the entry under cache key k, just stored, expires r seconds later: its
\* ttl is r, and at every later instant is_expired answers true exactly
\* when r seconds or more have passed
ExpiresAfter(ss, t, key, r) ==
  /\ ss[get_cache_key(key, <<>>)].timeout = r
  /\ \A u \in {i \in Instants : i >= t} :
       is_expired(ss, u, key) <=> (u - t >= r)

\* C15: an entry stored by set without a ttl, and an entry stored by
\* cached_positions with its default timeout, expires
\* config.app.refresh_interval seconds after it was stored
C15_DefaultTtlIsRefreshInterval ==
  [][/\ (last'.op = "set" /\ last'.timeout = <<>>) =>
          ExpiresAfter(session_state', now, last'.key[1],
                       config.app.refresh_interval)
     /\ (pc[1] = "set" /\ last'.op = "get_or_compute") =>
          ExpiresAfter(session_state', now, last'.key[1],
                       config.app.refresh_interval)]_vars

\* the sign the shaping gives a position: of a Position object, and of a
\* processed position
Sign(x) == IF x > 0 THEN 1 ELSE IF x < 0 THEN -1 ELSE 0

\* q is the quotient (m - e) / e * 100, negated when s < 0
IsPnlPercentage(q, e, m, s) ==
  q.num * e = Sign(s) * (m - e) * 100 * q.den

\* C16: the PnL percentage of a position with entry price e # 0, mark price
\* m and size s # 0 is (m - e) / e * 100 for s > 0 and its negation for
\* s < 0, and it is 0 when e = 0; both for Position.pnl_percentage and for
\* the pnl_percentage of process_positions_data
C16_PnlPercentageFormula ==
  /\ shape.stage = "from_api_response" =>
       \A i \in 1..Len(shape.objects) :
         LET pos == shape.objects[i]
         IN pos.size # 0 =>
              IF pos.entry_price = 0 THEN pnl_percentage(pos) = Zero
              ELSE IsPnlPercentage(pnl_percentage(pos), pos.entry_price,
                                   pos.mark_price, pos.size)
  /\ shape.stage = "process_positions_data" =>
       \A i \in 1..Len(shape.processed) :
         LET pos == shape.processed[i]
         IN pos.size # 0 =>
              IF pos.entry_price = 0 THEN pos.pnl_percentage = Zero
              ELSE IsPnlPercentage(pos.pnl_percentage, pos.entry_price,
                                   pos.mark_price,
                                   IF pos.side = "LONG" THEN 1 ELSE -1)

\* the unrealized PnLs of a list of positions, in order
PnlsOf(l) == [i \in 1..Len(l) |-> l[i].unrealized_pnl]

\* C17: process_positions_data returns as many positions as it was given,
\* each input once, in an order in which no position has a smaller absolute
\* unrealized PnL than its successor; PnLs -50, 10, 100 come out as
\* 100, -50, 10
C17_SortedByAbsolutePnl ==
  shape.stage = "process_positions_data" =>
    LET in == [i \in 1..Len(shape.positions) |->
                 processed_position(shape.positions[i])]
        out == shape.processed
    IN /\ Len(out) = Len(in)
       /\ \A x \in {in[i] : i \in 1..Len(in)}
                   \cup {out[i] : i \in 1..Len(out)} :
            Cardinality({i \in 1..Len(in) : in[i] = x})
              = Cardinality({i \in 1..Len(out) : out[i] = x})
       /\ \A i \in 1..(Len(out) - 1) :
            abs(out[i].unrealized_pnl) >= abs(out[i + 1].unrealized_pnl)
       /\ PnlsOf(in) = <<-50, 10, 100>> => PnlsOf(out) = <<100, -50, 10>>

\* the positions with PnLs -50, 10, 100 have been processed
C17_Witness ==
  /\ shape.stage = "process_positions_data"
  /\ PnlsOf([i \in 1..Len(shape.positions) |->
               processed_position(shape.positions[i])]) = <<-50, 10, 100>>
  /\ Len(shape.processed) = 3

\* C18: a raw record with a nonzero amount, shaped by
\* Position.from_api_response, is long when the amount is positive and short
\* when it is negative; shaped by get_positions and process_positions_data,
\* its side is LONG when the amount is positive and SHORT when it is
\* negative
C18_SideMatchesRawAmount ==
  /\ shape.stage = "from_api_response" =>
       \A i \in 1..Len(shape.raw) :
         LET a == RawAmount(shape.raw[i])
             pos == shape.objects[i]
         IN a # 0 =>
              /\ is_long(pos) <=> a > 0
              /\ is_short(pos) <=> a < 0
  /\ (shape.stage = "process_positions_data"
      /\ "positionAmt" \in DOMAIN shape.raw[1]) =>
       LET a == RawAmount(shape.raw[1])
       IN a # 0 =>
            /\ Len(shape.processed) = 1
            /\ shape.processed[1].side = (IF a > 0 THEN "LONG" ELSE "SHORT")

\* C19: no Position in the positions of an AccountSummary built by
\* from_api_response has size 0
C19_NoZeroSizePosition ==
  shape.stage = "process_account_summary" =>
    \A i \in 1..Len(shape.summary.positions) :
      shape.summary.positions[i].size # 0

\* C20: process_account_summary raises nothing; a quotient whose divisor is
\* zero is 0, and leverage_usage is total_exposure / total_balance, 0 when
\* total_balance is 0
C20_NoDivisionError ==
  shape.stage = "process_account_summary" =>
    LET balance == shape.summary.total_balance
        pnl == shape.summary.total_unrealized_pnl
        r == shape.result
    IN /\ r.raised = ""
       /\ balance = 0 => r.leverage_usage = Zero /\ r.pnl_percentage = Zero
       /\ balance - pnl = 0 => r.pnl_percentage = Zero
       /\ balance # 0 =>
            r.leverage_usage.num * balance
              = r.total_exposure * r.leverage_usage.den

\* ------------------------------------------------------------------------
\* Trades
\* ------------------------------------------------------------------------
\* C21: aggregating an empty trade collection raises nothing and reports
\* total_trades, total_volume, total_commission and win_rate as 0, and
\* calculate_performance_metrics on an empty collection returns every
\* metric as 0
C21_EmptyTradesGiveZeros ==
  shape.trades = <<>> =>
    /\ shape.stage = "process_trades_data" =>
         /\ shape.trades_result.raised = ""
         /\ shape.trades_result.total_trades = 0
         /\ shape.trades_result.total_volume = 0
         /\ shape.trades_result.total_commission = 0
         /\ shape.trades_result.win_rate = <<0>>
    /\ shape.stage = "calculate_performance_metrics" =>
         /\ shape.metrics.sharpe_ratio = [computed |-> FALSE, v |-> 0]
         /\ shape.metrics.max_drawdown = 0
         /\ shape.metrics.win_rate = Zero
         /\ shape.metrics.profit_factor = Zero
         /\ shape.metrics.avg_win = Zero
         /\ shape.metrics.avg_loss = Zero
         /\ shape.metrics.largest_win = 0
         /\ shape.metrics.largest_loss = 0

C21_Witness ==
  /\ shape.stage = "process_trades_data"
  /\ shape.trades = <<>>
  /\ shape.trades_result.total_trades = 0
  /\ shape.trades_result.win_rate = <<0>>

\* the realized PnL of the rows of a frame, as numbers
RealizedPnls(df) ==
  [i \in 1..Len(df.rows) |-> df.rows[i]["realized_pnl"].v]

\* the sum of the numbers of l that satisfy the sign s (1 positive,
\* -1 negative)
RECURSIVE SumOfSign(_, _)
SumOfSign(l, s) ==
  IF l = <<>> THEN 0
  ELSE (IF Head(l) * s > 0 THEN Head(l) ELSE 0) + SumOfSign(Tail(l), s)

\* how many numbers of l satisfy the sign s
CountOfSign(l, s) == Cardinality({i \in 1..Len(l) : l[i] * s > 0})

\* C22: for every non-empty trade collection profit_factor is the sum of
\* the positive realized PnL over the absolute sum of the negative realized
\* PnL when a trade has a negative realized PnL, and +infinity when none has
C22_ProfitFactor ==
  (shape.stage = "calculate_performance_metrics" /\ shape.trades # <<>>) =>
    LET pnls == RealizedPnls(shape.trades_df)
    IN shape.metrics.profit_factor =
         IF CountOfSign(pnls, -1) > 0
         THEN truediv(SumOfSign(pnls, 1), abs(SumOfSign(pnls, -1)))
         ELSE [num |-> 1, den |-> 0]

\* C23 as stated: win_rate is the fraction, between 0 and 1, of the trades
\* with a positive realized PnL among those with a non-zero realized PnL,
\* and 0 when no trade has a non-zero realized PnL
C23_WinRateIsFraction ==
  shape.stage = "calculate_performance_metrics" =>
    LET pnls == RealizedPnls(shape.trades_df)
        nonzero == CountOfSign(pnls, 1) + CountOfSign(pnls, -1)
    IN shape.metrics.win_rate =
         IF nonzero = 0 THEN Zero
         ELSE truediv(CountOfSign(pnls, 1), nonzero)

\* C23 amended: win_rate is the percentage, between 0 and 100, of the
\* trades with a positive realized PnL among those with a non-zero realized
\* PnL, and 0 when no trade has a non-zero realized PnL
C23_WinRateIsPercentage ==
  shape.stage = "calculate_performance_metrics" =>
    LET pnls == RealizedPnls(shape.trades_df)
        nonzero == CountOfSign(pnls, 1) + CountOfSign(pnls, -1)
    IN shape.metrics.win_rate =
         IF nonzero = 0 THEN Zero
         ELSE truediv(100 * CountOfSign(pnls, 1), nonzero)

C23_Witness ==
  /\ shape.stage = "calculate_performance_metrics"
  /\ CountOfSign(RealizedPnls(shape.trades_df), 1) = 1
  /\ CountOfSign(RealizedPnls(shape.trades_df), -1) = 2
  /\ shape.metrics.win_rate = [num |-> 100, den |-> 3]

\* C24: the realized PnL of every row of the trade frame is its negated
\* commission whatever its side, quantity and price, so the trades counted
\* as wins are those with a negative commission
C24_RealizedPnlIsNegatedCommission ==
  /\ shape.stage = "get_transaction_history" =>
       \A i \in 1..Len(shape.trades) :
         shape.trades_df.rows[i]["realized_pnl"]
           = PyFloat(-shape.trades[i]["commission"].v)
  /\ shape.stage = "calculate_performance_metrics" =>
       LET commissions == [i \in 1..Len(shape.trades) |->
                             shape.trades[i]["commission"].v]
           charged == CountOfSign(commissions, 1)
           rebated == CountOfSign(commissions, -1)
       IN shape.metrics.win_rate =
            IF charged + rebated = 0 THEN Zero
            ELSE truediv(100 * rebated, charged + rebated)

C24_Witness ==
  /\ shape.stage = "get_transaction_history"
  /\ Len(shape.trades) = 2
  /\ shape.trades[1]["side"] # shape.trades[2]["side"]
  /\ shape.trades[1]["qty"] # shape.trades[2]["qty"]
  /\ shape.trades[1]["commission"] = PyNumeral(5)
  /\ shape.trades_df.rows[1]["realized_pnl"] = PyFloat(-5)
  /\ shape.trades_df.rows[2]["realized_pnl"] = PyFloat(20)

\* C27: process_trades_data leaves the frame it is given as it was, the
\* same columns and the same values, and aggregating it a second time
\* gives the same summary
C27_AggregationLeavesInputUnchanged ==
  [][shape'.stage = "process_trades_data" =>
       /\ shape'.trades_df = shape.trades_df
       /\ shape'.calls = 2 => shape'.trades_result = shape.first_result]_vars

\* the sum of the values of a dict of numbers
RECURSIVE SumOfValues(_, _)
SumOfValues(d, keys) ==
  IF keys = {} THEN 0
  ELSE LET k == CHOOSE x \in keys : TRUE
       IN d[k] + SumOfValues(d, keys \ {k})

\* C30: for a non-empty trade frame with symbol, qty, quoteQty and
\* commission columns the per-symbol trade counts add up to total_trades,
\* the per-symbol volumes to total_volume and the per-symbol commissions to
\* total_commission, also when a row's qty is missing or not a number
C30_SymbolGroupsAddUp ==
  (shape.stage = "process_trades_data" /\ shape.trades # <<>>) =>
    LET r == shape.trades_result
        by_symbol == r.trades_by_symbol[1]
        symbols == DOMAIN by_symbol
    IN /\ r.raised = ""
       /\ SumOfValues([k \in symbols |-> by_symbol[k].trade_count], symbols)
            = r.total_trades
       /\ SumOfValues([k \in symbols |-> by_symbol[k].quoteQty], symbols)
            = r.total_volume
       /\ SumOfValues([k \in symbols |-> by_symbol[k].commission], symbols)
            = r.total_commission

\* ------------------------------------------------------------------------
\* Income
\* ------------------------------------------------------------------------
\* C25: for n income records with timestamps total_income is the sum of
\* their incomes, which is the sum of the income_by_type values when every
\* record has a type, and recent_income holds min(10, n) of the records,
\* none of them older than a record it leaves out
C25_IncomeTotalsAndRecent ==
  shape.stage = "process_income_data" =>
    LET n == Len(shape.income)
        r == shape.income_result
        incomes == [i \in 1..n |-> shape.income[i]["income"]]
        kept == {r.recent_income[i]["tranId"].v :
                   i \in 1..Len(r.recent_income)}
    IN /\ r.raised = ""
       /\ r.total_income = sum_skipna(incomes)
       /\ (\A i \in 1..n : shape.income[i]["incomeType"] # PyNone) =>
            SumOfValues(r.income_by_type, DOMAIN r.income_by_type)
              = r.total_income
       /\ Len(r.recent_income) = (IF n < 10 THEN n ELSE 10)
       /\ Cardinality(kept) = Len(r.recent_income)
       /\ kept \subseteq 1..n
       /\ \A i \in kept, j \in (1..n) \ kept :
            shape.income[i]["time"].v >= shape.income[j]["time"].v

C25_Witness ==
  /\ shape.stage = "process_income_data"
  /\ Len(shape.income) = 11
  /\ Len(shape.income_result.recent_income) = 10
  /\ shape.income[1]["time"].v < shape.income[2]["time"].v
  /\ \A i \in 1..10 : shape.income_result.recent_income[i]["tranId"].v # 1
  /\ shape.income_result.total_income # 0

\* ------------------------------------------------------------------------
\* Model classes
\* ------------------------------------------------------------------------
\* C26: from_api_response of Asset, Position, Trade, IncomeRecord and
\* AccountSummary returns an object for any raw record, whichever keys are
\* absent and whether a value is a number, a numeral, null or a str that is
\* no number; it never raises
C26_FromApiResponseIsTotal ==
  shape.stage = "from_api_response_of" => shape.raised = ""

\* ------------------------------------------------------------------------
\* The two PnL percentages
\* ------------------------------------------------------------------------
\* C28: the pnl_percentage process_positions_data reports for a position
\* is the pnl_percentage of the Position object with the same entry price,
\* mark price and size, for every entry price (positive, zero or negative)
\* and every size
C28_ProcessorAgreesWithPosition ==
  shape.stage = "process_positions_data" =>
    \A i \in 1..Len(shape.processed) :
      LET pos == shape.positions[i]
      IN shape.processed[i].pnl_percentage
           = pnl_percentage([size |-> float(pos["size"]),
                             entry_price |-> float(pos["entry_price"]),
                             mark_price |-> float(pos["mark_price"])])

\* ------------------------------------------------------------------------
\* Invalidation
\* ------------------------------------------------------------------------
\* C29: invalidate_cache('history') leaves no entry of a history wrapper,
\* whatever its symbol filter, so that a history request made when no such
\* entry is stored invokes the client; invalidate_cache('all') leaves no
\* entry of the cache namespace
C29_InvalidationForcesRefetch ==
  [][/\ (last'.op = "invalidate_cache" /\ last'.key = <<"history">>) =>
          \A k \in CacheKeys(session_state') : k.key \notin HistoryKeys
     /\ (last'.op = "invalidate_cache" /\ last'.key = <<"all">>) =>
          CacheKeys(session_state') = {}
     /\ (/\ last'.op = "get_or_compute"
         /\ last'.key[1] \in HistoryKeys
         /\ \A k \in CacheKeys(session_state) : k.key \notin HistoryKeys) =>
          last'.invoked = 1]_vars

====
